---- MODULE Spec2Model ----
(***************************************************************************)
(* Model of the megabit runner's serial link engine                        *)
(* (runner/src/serial/mod.rs): the frame codec as the read loop uses it,   *)
(* the transport actor (write loop, read loop), the heartbeat, the         *)
(* connection handle operations and the message inbox; and of the screen   *)
(* buffer (runner/src/display.rs) with the host functions that write and   *)
(* render it (runner/src/wasm_env/host_functions/display.rs).              *)
(***************************************************************************)
EXTENDS Integers, Sequences, FiniteSets, TLC

VARIABLES
    actor,      \* serial_task: "Opening" | "Running" | "Closed"
    exitCause,  \* why serial_task returned: "none" | "OpenError" | "ReadError" |
                \* "SendError" | "QueueClosed" | "Panic"
    queue,      \* the write queue (actor_tx / request_rx), FIFO of requests
    nEnq,       \* number of requests enqueued so far; a request's id
    wl,         \* handle_requests: [pc: "recv" | "write", req: request in flight]
    wire,       \* ghost: what write_all put on the link, one entry per request
    ioFailed,   \* ghost: a read or a write on the link has failed
    reply,      \* per issuer, the oneshot reply channel of its request
    pc,         \* per caller, where its current handle operation stands
    result,     \* per caller, what its last operation returned
    ops,        \* per caller, operations issued so far
    hb,         \* ping_task: "sleep" | "reply" | "stopped" | "killed"
    pings,      \* Pings enqueued so far
    link,       \* bytes the device has sent that no read has returned yet
    sent,       \* ghost: what the device has sent, one entry per frame
    rbuf,       \* handle_serial_msgs: incoming_serial_buffer
    rl,         \* handle_serial_msgs: "reading" | "failed" | "panicked"
    inbound,    \* the shared inbound channel (msg_tx / msg_rx), FIFO
    published,  \* ghost: every message the read loop has sent to the channel
    inbox,      \* MessageInbox::run: "running" | "done" | "killed"
    history,    \* MessageInbox: retained messages
    waits,      \* MessageInbox: per caller, its pending wait
    owedG,      \* ghost: a GetDisplayInfoResponse was published while the
                \* caller's get_display_info was reading the channel
    owedW,      \* ghost: a message matching the caller's untimed wait was
                \* published while the wait was pending
    now,        \* the clock (Instant::now), in seconds since the start
    pubAt,      \* ghost: when each entry of `published` was published
    sb,         \* the ScreenBuffer
    sbRes,      \* the last host call on the buffer and what it returned
    rendered    \* messages render has handed to update_row / update_row_rgb

vars == <<actor, exitCause, queue, nEnq, wl, wire, ioFailed, reply, pc, result,
          ops, hb, pings, link, sent, rbuf, rl, inbound, published, inbox,
          history, waits, owedG, owedW, now, pubAt, sb, sbRes, rendered>>

\* the state of the serial engine, and the state of the host's display
serialVars == <<actor, exitCause, queue, nEnq, wl, wire, ioFailed, reply, pc,
                result, ops, hb, pings, link, sent, rbuf, rl, inbound,
                published, inbox, history, waits, owedG, owedW, now, pubAt>>
screenVars == <<sb, sbRes, rendered>>

(***************************************************************************)
(* Bounds                                                                  *)
(***************************************************************************)
MaxFrames == 3        \* frames in a byte stream handed to the read loop
MaxOps == 1           \* operations one caller issues
MaxPings == 1         \* Pings the heartbeat enqueues
MaxDeviceMsgs == 1    \* messages the device sends while the connection runs
MaxTime == 31         \* seconds the clock runs for
MaxHostCalls == 2     \* host calls on the screen buffer

Callers == {"c1", "c2"}
GdiCallers == {"c1"}
Issuers == Callers \cup {"hb"}

(***************************************************************************)
(* Messages and their serialization.  The schema crate is outside the      *)
(* repository's sources; the table below is a stand-in that satisfies its  *)
(* round-trip contract and has payloads with and without zero bytes.       *)
(***************************************************************************)
SerialMessage ==
    {"Ping", "SetLedOff", "SetLedOn", "GetDisplayInfo", "GetDisplayInfoResponse"}

to_bytes(m) ==
    CASE m = "Ping"                   -> <<1>>
      [] m = "SetLedOff"              -> <<2, 0>>
      [] m = "SetLedOn"               -> <<2, 1>>
      [] m = "GetDisplayInfo"         -> <<3>>
      [] m = "GetDisplayInfoResponse" -> <<4, 0, 5>>

\* try_from_bytes: Ok(msg) for exactly the serialized forms, "Invalid" otherwise
try_from_bytes(b) ==
    IF \E m \in SerialMessage : to_bytes(m) = b
    THEN CHOOSE m \in SerialMessage : to_bytes(m) = b
    ELSE "Invalid"

(***************************************************************************)
(* cobs::encode_vec                                                        *)
(***************************************************************************)
\* index of the first 0x00 of s, or 0 when there is none
FirstZero(s) ==
    IF \E i \in 1..Len(s) : s[i] = 0
    THEN CHOOSE i \in 1..Len(s) : s[i] = 0 /\ \A j \in 1..(i-1) : s[j] # 0
    ELSE 0

RECURSIVE encode_vec(_)
encode_vec(p) ==
    LET z == FirstZero(p)
        run == IF z = 0 THEN Len(p) ELSE z - 1
    IN  IF run >= 254
        THEN <<255>> \o SubSeq(p, 1, 254) \o
             (IF Len(p) = 254 THEN <<>> ELSE encode_vec(SubSeq(p, 255, Len(p))))
        ELSE IF z = 0
             THEN <<run + 1>> \o p
             ELSE <<run + 1>> \o SubSeq(p, 1, run) \o encode_vec(SubSeq(p, z + 1, Len(p)))

\* handle_requests: the frame of a message, delimiter included
Frame(m) == encode_vec(to_bytes(m)) \o <<0>>

(***************************************************************************)
(* cobs::decode_vec: the decoder state machine fed byte by byte            *)
(***************************************************************************)
Idle == [st |-> "Idle", n |-> 0]
Grab(n) == [st |-> "Grab", n |-> n]
GrabChain(n) == [st |-> "GrabChain", n |-> n]

\* DecoderState::feed: [res, byte, next]
feed(s, d) ==
    CASE s.st = "Idle" /\ d = 0   -> [res |-> "NoData", byte |-> 0, next |-> Idle]
      [] s.st = "Idle" /\ d = 255 -> [res |-> "NoData", byte |-> 0, next |-> GrabChain(254)]
      [] s.st = "Idle" /\ d \notin {0, 255}
                                  -> [res |-> "NoData", byte |-> 0, next |-> Grab(d - 1)]
      [] s.st = "Grab" /\ s.n = 0 /\ d = 0
                                  -> [res |-> "DataComplete", byte |-> 0, next |-> Idle]
      [] s.st = "Grab" /\ s.n = 0 /\ d = 255
                                  -> [res |-> "DataContinue", byte |-> 0, next |-> GrabChain(254)]
      [] s.st = "Grab" /\ s.n = 0 /\ d \notin {0, 255}
                                  -> [res |-> "DataContinue", byte |-> 0, next |-> Grab(d - 1)]
      [] s.st = "Grab" /\ s.n > 0 /\ d = 0
                                  -> [res |-> "Err", byte |-> 0, next |-> Idle]
      [] s.st = "Grab" /\ s.n > 0 /\ d # 0
                                  -> [res |-> "DataContinue", byte |-> d, next |-> Grab(s.n - 1)]
      [] s.st = "GrabChain" /\ s.n = 0 /\ d = 0
                                  -> [res |-> "DataComplete", byte |-> 0, next |-> Idle]
      [] s.st = "GrabChain" /\ s.n = 0 /\ d = 255
                                  -> [res |-> "NoData", byte |-> 0, next |-> GrabChain(254)]
      [] s.st = "GrabChain" /\ s.n = 0 /\ d \notin {0, 255}
                                  -> [res |-> "NoData", byte |-> 0, next |-> Grab(d - 1)]
      [] s.st = "GrabChain" /\ s.n > 0 /\ d = 0
                                  -> [res |-> "Err", byte |-> 0, next |-> Idle]
      [] s.st = "GrabChain" /\ s.n > 0 /\ d # 0
                                  -> [res |-> "DataContinue", byte |-> d, next |-> GrabChain(s.n - 1)]

\* CobsDecoder::push: feeds src from index i; stops at the first complete
\* frame or error.  [kind: "complete" | "error" | "none", out, state]
RECURSIVE push(_, _, _, _)
push(s, out, src, i) ==
    IF i > Len(src)
    THEN [kind |-> "none", out |-> out, state |-> s]
    ELSE LET r == feed(s, src[i])
         IN  CASE r.res = "Err"          -> [kind |-> "error", out |-> out, state |-> r.next]
               [] r.res = "DataComplete" -> [kind |-> "complete", out |-> out, state |-> r.next]
               [] r.res = "NoData"       -> push(r.next, out, src, i + 1)
               [] r.res = "DataContinue" -> push(r.next, Append(out, r.byte), src, i + 1)

\* cobs::decode_vec: [ok, data].  When the source runs out without a
\* terminator and does not end in 0x00, a sentinel 0x00 is pushed.
decode_vec(src) ==
    LET r == push(Idle, <<>>, src, 1)
    IN  CASE r.kind = "complete" -> [ok |-> TRUE, data |-> r.out]
          [] r.kind = "error"    -> [ok |-> FALSE, data |-> <<>>]
          [] r.kind = "none"     ->
                IF src = <<>> \/ src[Len(src)] # 0
                THEN LET r2 == push(r.state, r.out, <<0>>, 1)
                     IN  IF r2.kind = "complete"
                         THEN [ok |-> TRUE, data |-> r2.out]
                         ELSE [ok |-> FALSE, data |-> <<>>]
                ELSE [ok |-> FALSE, data |-> <<>>]

(***************************************************************************)
(* Requests, reply channels, waits                                         *)
(***************************************************************************)
NoReq == [id |-> 0, from |-> "none", msg |-> "none"]
NoWait == [pred |-> {}, timed |-> FALSE, slot |-> "none"]

\* what the callers send, and what the device sends
SendMsgs == {"SetLedOn"}
DeviceMsgs == {"Ping", "GetDisplayInfoResponse"}
Preds == {{"Ping"}, {"GetDisplayInfoResponse"}}

\* the write queue is closed for senders once its receiver is dropped, which
\* happens when serial_task returns
QueueClosed == actor = "Closed"

\* senders of the write queue: every live handle, and the heartbeat's clone
Senders ==
    {c \in Callers : pc[c] # "dropped"} \cup
    (IF hb \in {"sleep", "reply"} THEN {"hb"} ELSE {})

\* the inbound channel is closed once its only sender, the one moved into
\* serial_task, is dropped
InboundClosed == actor = "Closed"

\* a proper prefix of a frame: what a failed or cancelled write_all leaves
Prefixes(f) == {SubSeq(f, 1, k) : k \in 0..(Len(f) - 1)}

(***************************************************************************)
(* serial_task returning: the select! drops both loops.  A request in      *)
(* flight in the write loop is dropped with them: part of its frame may be *)
(* on the link, and its reply sender is dropped.  Requests still in the    *)
(* queue stay there.                                                       *)
(***************************************************************************)
DropInFlight(part) ==
    IF wl.pc = "write"
    THEN /\ wire' = Append(wire, [id |-> wl.req.id, msg |-> wl.req.msg, bytes |-> part])
         /\ reply' = [reply EXCEPT ![wl.req.from] = "Dropped"]
         /\ wl' = [pc |-> "recv", req |-> NoReq]
    ELSE UNCHANGED <<wire, reply, wl>>

InFlightParts == IF wl.pc = "write" THEN Prefixes(Frame(wl.req.msg)) ELSE {<<>>}

(***************************************************************************)
(* serial_task: opening the device                                         *)
(***************************************************************************)
OpenOk ==
    /\ actor = "Opening"
    /\ actor' = "Running"
    /\ UNCHANGED <<exitCause, queue, nEnq, wl, wire, ioFailed, reply, pc, result,
                   ops, hb, pings, link, sent, rbuf, rl, inbound, published,
                   inbox, history, waits, owedG, owedW>>
    /\ UNCHANGED <<now, pubAt, screenVars>>

\* OpenFail without its `return`: the error is logged and the loops start
OpenFail_NoReturn ==
    /\ actor = "Opening"
    /\ actor' = "Running"
    /\ exitCause' = "OpenError"
    /\ UNCHANGED <<queue, nEnq, wl, wire, ioFailed, reply, pc, result,
                   ops, hb, pings, link, sent, rbuf, rl, inbound, published,
                   inbox, history, waits, owedG, owedW>>
    /\ UNCHANGED <<now, pubAt, screenVars>>

OpenFail ==
    /\ actor = "Opening"
    /\ actor' = "Closed"
    /\ exitCause' = "OpenError"
    /\ UNCHANGED <<queue, nEnq, wl, wire, ioFailed, reply, pc, result,
                   ops, hb, pings, link, sent, rbuf, rl, inbound, published,
                   inbox, history, waits, owedG, owedW>>
    /\ UNCHANGED <<now, pubAt, screenVars>>

(***************************************************************************)
(* send_message_inner, as the handle operations and the heartbeat use it   *)
(***************************************************************************)
\* actor_tx.send: the request joins the queue with a fresh reply channel
Enqueue(who, m) ==
    /\ nEnq' = nEnq + 1
    /\ queue' = Append(queue, [id |-> nEnq + 1, from |-> who, msg |-> m])
    /\ reply' = [reply EXCEPT ![who] = "pending"]

\* rx.await: the io::Result the caller gets from a resolved reply channel
ReplyResult(r) ==
    CASE r = "Ok"      -> "Ok"
      [] r = "Err"     -> "IoError"
      [] r = "Dropped" -> "UnexpectedEof"

\* set_led_state / set_rgb_state / update_row / update_row_rgb
CallSend(c, m) ==
    /\ pc[c] = "idle"
    /\ ops[c] < MaxOps
    /\ ops' = [ops EXCEPT ![c] = @ + 1]
    /\ IF QueueClosed
       THEN /\ result' = [result EXCEPT ![c] = "NotConnected"]
            /\ UNCHANGED <<pc, nEnq, queue, reply>>
       ELSE /\ Enqueue(c, m)
            /\ pc' = [pc EXCEPT ![c] = "sendReply"]
            /\ result' = [result EXCEPT ![c] = "none"]
    /\ UNCHANGED <<actor, exitCause, wl, wire, ioFailed, hb, pings, link, sent,
                   rbuf, rl, inbound, published, inbox, history, waits, owedG, owedW>>
    /\ UNCHANGED <<now, pubAt, screenVars>>

SendReturn(c) ==
    /\ pc[c] = "sendReply"
    /\ reply[c] \in {"Ok", "Err", "Dropped"}
    /\ result' = [result EXCEPT ![c] = ReplyResult(reply[c])]
    /\ reply' = [reply EXCEPT ![c] = "none"]
    /\ pc' = [pc EXCEPT ![c] = "idle"]
    /\ UNCHANGED <<actor, exitCause, queue, nEnq, wl, wire, ioFailed, ops, hb,
                   pings, link, sent, rbuf, rl, inbound, published, inbox,
                   history, waits, owedG, owedW>>
    /\ UNCHANGED <<now, pubAt, screenVars>>

(***************************************************************************)
(* get_display_info                                                        *)
(***************************************************************************)
GdiCall(c) ==
    /\ c \in GdiCallers
    /\ pc[c] = "idle"
    /\ ops[c] < MaxOps
    /\ ops' = [ops EXCEPT ![c] = @ + 1]
    /\ IF QueueClosed
       THEN /\ result' = [result EXCEPT ![c] = "NotConnected"]
            /\ UNCHANGED <<pc, nEnq, queue, reply>>
       ELSE /\ Enqueue(c, "GetDisplayInfo")
            /\ pc' = [pc EXCEPT ![c] = "gdiReply"]
            /\ result' = [result EXCEPT ![c] = "none"]
    /\ UNCHANGED <<actor, exitCause, wl, wire, ioFailed, hb, pings, link, sent,
                   rbuf, rl, inbound, published, inbox, history, waits, owedG, owedW>>
    /\ UNCHANGED <<now, pubAt, screenVars>>

\* the `?` after send_message: an error returns, Ok goes on to the recv loop
GdiReply(c) ==
    /\ pc[c] = "gdiReply"
    /\ reply[c] \in {"Ok", "Err", "Dropped"}
    /\ reply' = [reply EXCEPT ![c] = "none"]
    /\ IF reply[c] = "Ok"
       THEN /\ pc' = [pc EXCEPT ![c] = "gdiRecv"]
            /\ UNCHANGED result
       ELSE /\ pc' = [pc EXCEPT ![c] = "idle"]
            /\ result' = [result EXCEPT ![c] = ReplyResult(reply[c])]
    /\ UNCHANGED <<actor, exitCause, queue, nEnq, wl, wire, ioFailed, ops, hb,
                   pings, link, sent, rbuf, rl, inbound, published, inbox,
                   history, waits, owedG, owedW>>
    /\ UNCHANGED <<now, pubAt, screenVars>>

\* one turn of `while let Ok(msg) = self.serial_message_rx.recv().await`
GdiRecv(c) ==
    /\ pc[c] = "gdiRecv"
    /\ IF inbound # <<>>
       THEN /\ inbound' = Tail(inbound)
            /\ IF Head(inbound) = "GetDisplayInfoResponse"
               THEN /\ pc' = [pc EXCEPT ![c] = "idle"]
                    /\ result' = [result EXCEPT ![c] = "GdiOk"]
                    /\ owedG' = [owedG EXCEPT ![c] = FALSE]
               ELSE UNCHANGED <<pc, result, owedG>>
       ELSE /\ InboundClosed
            /\ pc' = [pc EXCEPT ![c] = "idle"]
            /\ result' = [result EXCEPT ![c] = "ConnectionAborted"]
            /\ owedG' = [owedG EXCEPT ![c] = FALSE]
            /\ UNCHANGED inbound
    /\ UNCHANGED <<actor, exitCause, queue, nEnq, wl, wire, ioFailed, reply, ops,
                   hb, pings, link, sent, rbuf, rl, published, inbox, history,
                   waits, owedW>>
    /\ UNCHANGED <<now, pubAt, screenVars>>

\* a handle (or clone) is dropped; its operations borrow it, so only when idle
DropHandle(c) ==
    /\ pc[c] = "idle"
    /\ pc' = [pc EXCEPT ![c] = "dropped"]
    /\ UNCHANGED <<actor, exitCause, queue, nEnq, wl, wire, ioFailed, reply,
                   result, ops, hb, pings, link, sent, rbuf, rl, inbound,
                   published, inbox, history, waits, owedG, owedW>>
    /\ UNCHANGED <<now, pubAt, screenVars>>

(***************************************************************************)
(* ping_task                                                               *)
(***************************************************************************)
\* the 333 ms sleep ends and the Ping is sent; a closed queue ends the task
HbTick ==
    /\ hb = "sleep"
    /\ actor # "Opening"
    /\ IF QueueClosed
       THEN /\ hb' = "stopped"
            /\ UNCHANGED <<nEnq, queue, reply, pings>>
       ELSE /\ pings < MaxPings
            /\ Enqueue("hb", "Ping")
            /\ pings' = pings + 1
            /\ hb' = "reply"
    /\ UNCHANGED <<actor, exitCause, wl, wire, ioFailed, pc, result, ops, link,
                   sent, rbuf, rl, inbound, published, inbox, history, waits,
                   owedG, owedW>>
    /\ UNCHANGED <<now, pubAt, screenVars>>

\* the reply of the Ping arrives: Ok sleeps again, any error breaks the loop
HbReply ==
    /\ hb = "reply"
    /\ reply["hb"] \in {"Ok", "Err", "Dropped"}
    /\ hb' = IF reply["hb"] = "Ok" THEN "sleep" ELSE "stopped"
    /\ reply' = [reply EXCEPT !["hb"] = "none"]
    /\ UNCHANGED <<actor, exitCause, queue, nEnq, wl, wire, ioFailed, pc, result,
                   ops, pings, link, sent, rbuf, rl, inbound, published, inbox,
                   history, waits, owedG, owedW>>
    /\ UNCHANGED <<now, pubAt, screenVars>>

(***************************************************************************)
(* handle_requests: the write loop                                         *)
(***************************************************************************)
\* request_rx.recv() returns the next request
WriteLoopRecv ==
    /\ actor = "Running"
    /\ wl.pc = "recv"
    /\ queue # <<>>
    /\ wl' = [pc |-> "write", req |-> Head(queue)]
    /\ queue' = Tail(queue)
    /\ UNCHANGED <<actor, exitCause, nEnq, wire, ioFailed, reply, pc, result, ops,
                   hb, pings, link, sent, rbuf, rl, inbound, published, inbox,
                   history, waits, owedG, owedW>>
    /\ UNCHANGED <<now, pubAt, screenVars>>

\* request_rx.recv() returns Err: the queue is empty and every sender is gone
WriteLoopExit ==
    /\ actor = "Running"
    /\ wl.pc = "recv"
    /\ queue = <<>>
    /\ Senders = {}
    /\ actor' = "Closed"
    /\ exitCause' = "QueueClosed"
    /\ UNCHANGED <<queue, nEnq, wl, wire, ioFailed, reply, pc, result, ops, hb,
                   pings, link, sent, rbuf, rl, inbound, published, inbox,
                   history, waits, owedG, owedW>>
    /\ UNCHANGED <<now, pubAt, screenVars>>

\* write_all returns Ok: the whole frame is on the link; the result is sent
\* on the reply channel and the loop goes back to recv
WriteOk ==
    /\ actor = "Running"
    /\ wl.pc = "write"
    /\ wire' = Append(wire, [id |-> wl.req.id, msg |-> wl.req.msg,
                             bytes |-> Frame(wl.req.msg)])
    /\ reply' = [reply EXCEPT ![wl.req.from] = "Ok"]
    /\ wl' = [pc |-> "recv", req |-> NoReq]
    /\ UNCHANGED <<actor, exitCause, queue, nEnq, ioFailed, pc, result, ops, hb,
                   pings, link, sent, rbuf, rl, inbound, published, inbox,
                   history, waits, owedG, owedW>>
    /\ UNCHANGED <<now, pubAt, screenVars>>

\* WriteErr sending Ok(()) on the reply channel, not the result of write_all
WriteErr_ReplyOk(part) ==
    /\ actor = "Running"
    /\ wl.pc = "write"
    /\ part \in Prefixes(Frame(wl.req.msg))
    /\ wire' = Append(wire, [id |-> wl.req.id, msg |-> wl.req.msg, bytes |-> part])
    /\ reply' = [reply EXCEPT ![wl.req.from] = "Ok"]
    /\ wl' = [pc |-> "recv", req |-> NoReq]
    /\ ioFailed' = TRUE
    /\ UNCHANGED <<actor, exitCause, queue, nEnq, pc, result, ops, hb,
                   pings, link, sent, rbuf, rl, inbound, published, inbox,
                   history, waits, owedG, owedW>>
    /\ UNCHANGED <<now, pubAt, screenVars>>

\* write_all returns Err after part of the frame: the error is sent on the
\* reply channel and the loop goes back to recv
WriteErr(part) ==
    /\ actor = "Running"
    /\ wl.pc = "write"
    /\ part \in Prefixes(Frame(wl.req.msg))
    /\ wire' = Append(wire, [id |-> wl.req.id, msg |-> wl.req.msg, bytes |-> part])
    /\ reply' = [reply EXCEPT ![wl.req.from] = "Err"]
    /\ wl' = [pc |-> "recv", req |-> NoReq]
    /\ ioFailed' = TRUE
    /\ UNCHANGED <<actor, exitCause, queue, nEnq, pc, result, ops, hb,
                   pings, link, sent, rbuf, rl, inbound, published, inbox,
                   history, waits, owedG, owedW>>
    /\ UNCHANGED <<now, pubAt, screenVars>>

(***************************************************************************)
(* handle_serial_msgs: the read loop                                       *)
(***************************************************************************)
\* receivers of the inbound channel: the handles and the inbox's clone
Receivers ==
    {c \in Callers : pc[c] # "dropped"} \cup
    (IF inbox = "running" THEN {"inbox"} ELSE {})

\* the buffer after a successful decode: everything after the first 0x00
Trim(buf) == SubSeq(buf, FirstZero(buf) + 1, Len(buf))

\* one turn of the loop after read_buf returned n bytes of the link
ReadIteration(n, part) ==
    LET buf == rbuf \o SubSeq(link, 1, n)
        d == decode_vec(buf)
        msg == try_from_bytes(d.data)
        pub == d.ok /\ msg # "Invalid"
    IN  /\ link' = SubSeq(link, n + 1, Len(link))
        /\ IF ~d.ok
           THEN \* decode failed: the bytes stay in the buffer
                /\ rbuf' = buf
                /\ UNCHANGED <<actor, exitCause, wl, wire, reply, hb, rl, inbound,
                               published, inbox, owedG, owedW>>
           ELSE IF pub /\ Receivers = {}
           THEN \* incoming_msg_tx.send failed: the loop returns the error
                /\ rbuf' = buf
                /\ actor' = "Closed"
                /\ exitCause' = "SendError"
                /\ DropInFlight(part)
                /\ UNCHANGED <<hb, rl, inbound, published, inbox, owedG, owedW>>
           ELSE /\ IF pub
                   THEN /\ inbound' = Append(inbound, msg)
                        /\ published' = Append(published, msg)
                        /\ owedG' = [c \in Callers |->
                                        owedG[c] \/ (pc[c] = "gdiRecv" /\
                                                     msg = "GetDisplayInfoResponse")]
                        /\ owedW' = [c \in Callers |->
                                        owedW[c] \/ (waits[c].slot = "pending" /\
                                                     ~waits[c].timed /\
                                                     msg \in waits[c].pred)]
                   ELSE UNCHANGED <<inbound, published, owedG, owedW>>
                /\ IF FirstZero(buf) = 0
                   THEN \* the expect() on the terminator search panics: the
                        \* joined future unwinds, taking every task with it
                        /\ rbuf' = buf
                        /\ rl' = "panicked"
                        /\ actor' = "Closed"
                        /\ exitCause' = "Panic"
                        /\ hb' = IF hb \in {"sleep", "reply"} THEN "killed" ELSE hb
                        /\ inbox' = IF inbox = "running" THEN "killed" ELSE inbox
                        /\ DropInFlight(part)
                   ELSE /\ rbuf' = Trim(buf)
                        /\ UNCHANGED <<actor, exitCause, wl, wire, reply, hb, rl, inbox>>

\* read_buf returns some of the bytes in flight
SerialRead(n, part) ==
    /\ actor = "Running"
    /\ n \in 1..Len(link)
    /\ part \in InFlightParts
    /\ ReadIteration(n, part)
    /\ UNCHANGED <<queue, nEnq, ioFailed, pc, result, ops, pings, sent, history, waits>>
    /\ pubAt' = IF Len(published') > Len(published) THEN Append(pubAt, now)
                                                   ELSE pubAt
    /\ UNCHANGED <<now, screenVars>>

\* read_buf returns Ok(0)
SerialReadZero(part) ==
    /\ actor = "Running"
    /\ part \in InFlightParts
    /\ ReadIteration(0, part)
    /\ UNCHANGED <<queue, nEnq, ioFailed, pc, result, ops, pings, sent, history, waits>>
    /\ pubAt' = IF Len(published') > Len(published) THEN Append(pubAt, now)
                                                   ELSE pubAt
    /\ UNCHANGED <<now, screenVars>>

\* read_buf returns Err: the loop returns it and serial_task ends
ReadFail(part) ==
    /\ actor = "Running"
    /\ part \in InFlightParts
    /\ actor' = "Closed"
    /\ exitCause' = "ReadError"
    /\ rl' = "failed"
    /\ ioFailed' = TRUE
    /\ DropInFlight(part)
    /\ UNCHANGED <<queue, nEnq, pc, result, ops, hb, pings, link, sent, rbuf,
                   inbound, published, inbox, history, waits, owedG, owedW>>
    /\ UNCHANGED <<now, pubAt, screenVars>>

(***************************************************************************)
(* The device end of the link                                              *)
(***************************************************************************)
\* the bytes of one entry of `sent`: a message's frame, or a frame that
\* unstuffs to bytes no message serializes to
InvalidPayload == <<9>>
DeviceFrame(item) ==
    IF item = "Invalid" THEN encode_vec(InvalidPayload) \o <<0>> ELSE Frame(item)

RECURSIVE StreamBytes(_)
StreamBytes(items) ==
    IF items = <<>> THEN <<>> ELSE DeviceFrame(Head(items)) \o StreamBytes(Tail(items))

\* the device sends a frame; it does so whatever the state of the host
DeviceSend(m) ==
    /\ Len(sent) < MaxDeviceMsgs
    /\ sent' = Append(sent, m)
    /\ link' = link \o DeviceFrame(m)
    /\ UNCHANGED <<actor, exitCause, queue, nEnq, wl, wire, ioFailed, reply, pc,
                   result, ops, hb, pings, rbuf, rl, inbound, published, inbox,
                   history, waits, owedG, owedW>>
    /\ UNCHANGED <<now, pubAt, screenVars>>

(***************************************************************************)
(* Message inbox (msg_inbox): maintenance task and waits                   *)
(***************************************************************************)
\* the maintenance task takes the next message of the inbound channel, keeps
\* it in the history and resolves every pending wait it matches
InboxDrain ==
    /\ inbox = "running"
    /\ actor # "Opening"
    /\ inbound # <<>>
    /\ inbound' = Tail(inbound)
    /\ history' = Append(history, [received_at |-> now, message |-> Head(inbound)])
    /\ waits' = [c \in Callers |->
                    IF waits[c].slot = "pending" /\ Head(inbound) \in waits[c].pred
                    THEN [waits[c] EXCEPT !.slot = Head(inbound)]
                    ELSE waits[c]]
    /\ UNCHANGED <<actor, exitCause, queue, nEnq, wl, wire, ioFailed, reply, pc,
                   result, ops, hb, pings, link, sent, rbuf, rl, published, inbox,
                   owedG, owedW>>
    /\ UNCHANGED <<now, pubAt, screenVars>>

\* the inbound channel is closed and drained: the maintenance task ends
InboxStop ==
    /\ inbox = "running"
    /\ inbound = <<>>
    /\ InboundClosed
    /\ inbox' = "done"
    /\ UNCHANGED <<actor, exitCause, queue, nEnq, wl, wire, ioFailed, reply, pc,
                   result, ops, hb, pings, link, sent, rbuf, rl, inbound,
                   published, history, waits, owedG, owedW>>
    /\ UNCHANGED <<now, pubAt, screenVars>>

\* wait_for_message(matcher, timeout): registers the pending wait
WaitCall(c, pred, timed) ==
    /\ pc[c] = "idle"
    /\ ops[c] < MaxOps
    /\ ops' = [ops EXCEPT ![c] = @ + 1]
    /\ waits' = [waits EXCEPT ![c] = [pred |-> pred, timed |-> timed, slot |-> "pending"]]
    /\ pc' = [pc EXCEPT ![c] = "waiting"]
    /\ result' = [result EXCEPT ![c] = "none"]
    /\ UNCHANGED <<actor, exitCause, queue, nEnq, wl, wire, ioFailed, reply, hb,
                   pings, link, sent, rbuf, rl, inbound, published, inbox,
                   history, owedG, owedW>>
    /\ UNCHANGED <<now, pubAt, screenVars>>

\* WaitTimeout without its guards: the deadline resolves any registered wait,
\* resolved or untimed
WaitTimeout_AnyWait(c) ==
    /\ waits[c].slot # "none"
    /\ waits' = [waits EXCEPT ![c].slot = "NoMatch"]
    /\ UNCHANGED <<actor, exitCause, queue, nEnq, wl, wire, ioFailed, reply, pc,
                   result, ops, hb, pings, link, sent, rbuf, rl, inbound,
                   published, inbox, history, owedG, owedW>>
    /\ UNCHANGED <<now, pubAt, screenVars>>

\* the deadline of a timed wait passes before a match
WaitTimeout(c) ==
    /\ waits[c].slot = "pending"
    /\ waits[c].timed
    /\ waits' = [waits EXCEPT ![c].slot = "NoMatch"]
    /\ UNCHANGED <<actor, exitCause, queue, nEnq, wl, wire, ioFailed, reply, pc,
                   result, ops, hb, pings, link, sent, rbuf, rl, inbound,
                   published, inbox, history, owedG, owedW>>
    /\ UNCHANGED <<now, pubAt, screenVars>>

\* the resolved wait returns to its caller
WaitReturn(c) ==
    /\ pc[c] = "waiting"
    /\ waits[c].slot \notin {"pending", "none"}
    /\ result' = [result EXCEPT ![c] = waits[c].slot]
    /\ waits' = [waits EXCEPT ![c] = NoWait]
    /\ pc' = [pc EXCEPT ![c] = "idle"]
    /\ owedW' = [owedW EXCEPT ![c] = FALSE]
    /\ UNCHANGED <<actor, exitCause, queue, nEnq, wl, wire, ioFailed, reply, ops,
                   hb, pings, link, sent, rbuf, rl, inbound, published, inbox,
                   history, owedG>>
    /\ UNCHANGED <<now, pubAt, screenVars>>

(***************************************************************************)
(* Message inbox (msg_inbox): the clock, the retained history              *)
(***************************************************************************)
\* the retention window start_serial_task gives the inbox, in seconds
RetentionWindow == 30

\* an entry is retained while its age is below the retention window
Retained(e) == now - e.received_at < RetentionWindow

NoEntry == [received_at |-> -1, message |-> "NoMatch"]

\* check_for_message_since(matcher, start_time): the first retained entry
\* received at or after start_time that the matcher accepts
check_for_message_since(pred, start) ==
    LET hits == SelectSeq(history, LAMBDA e : /\ Retained(e)
                                              /\ e.received_at >= start
                                              /\ e.message \in pred)
    IN  IF hits = <<>> THEN NoEntry ELSE Head(hits)

\* a caller looks the history up; the call does not suspend
CheckCall(c, pred, start) ==
    /\ pc[c] = "idle"
    /\ result' = [result EXCEPT ![c] = check_for_message_since(pred, start).message]
    /\ UNCHANGED <<actor, exitCause, queue, nEnq, wl, wire, ioFailed, reply, pc,
                   ops, hb, pings, link, sent, rbuf, rl, inbound, published,
                   inbox, history, waits, owedG, owedW>>
    /\ UNCHANGED <<now, pubAt, screenVars>>

\* the maintenance task's periodic pruning of entries past the window
Prune ==
    /\ inbox = "running"
    /\ history' = SelectSeq(history, Retained)
    /\ history' # history
    /\ UNCHANGED <<actor, exitCause, queue, nEnq, wl, wire, ioFailed, reply, pc,
                   result, ops, hb, pings, link, sent, rbuf, rl, inbound,
                   published, inbox, waits, owedG, owedW>>
    /\ UNCHANGED <<now, pubAt, screenVars>>

\* a second passes.  A published message is taken from the channel by a
\* waiting receiver well within the second it was published in.
Tick ==
    /\ now < MaxTime
    /\ ~(inbound # <<>> /\ (inbox = "running" \/ \E c \in Callers : pc[c] = "gdiRecv"))
    /\ now' = now + 1
    /\ UNCHANGED <<actor, exitCause, queue, nEnq, wl, wire, ioFailed, reply, pc,
                   result, ops, hb, pings, link, sent, rbuf, rl, inbound,
                   published, inbox, history, waits, owedG, owedW>>
    /\ UNCHANGED <<pubAt, screenVars>>

(***************************************************************************)
(* ScreenBuffer (runner/src/display.rs).  The pixel vector is a sequence;  *)
(* the code's index i is position i + 1.  An operation is an operator      *)
(* giving the io::Result (err) and the buffer afterwards (sb).             *)
(***************************************************************************)
\* position_x, position_y, width and height are u32, whose arithmetic wraps
\* at 2^32.  The model checker's integers end below 2^32, so the word is
\* modelled 16 bits wide; every size and index here is far below either.
U32 == 65536
U8 == 256             \* 2^8: row_number and row_data_len are u8

\* DEFAULT_MONO_PALETTE, and another palette
DEFAULT_MONO_PALETTE == [on |-> 31744, off |-> 0]
OtherPalette == [on |-> 31, off |-> 1057]

\* Option<MonocolorPalette>; a Monocolor buffer has no palette, its palette
\* field is a placeholder
None == [some |-> FALSE, on |-> 0, off |-> 0]
Some(palette) == [some |-> TRUE, on |-> palette.on, off |-> palette.off]

\* ScreenBuffer::new(width, height, rgb_monocolor)
new(width, height, rgb_monocolor) ==
    IF rgb_monocolor.some
    THEN [kind |-> "Rgb555", width |-> width, height |-> height,
          px |-> [i \in 1..(width * height) |-> 0],
          palette |-> [on |-> rgb_monocolor.on, off |-> rgb_monocolor.off]]
    ELSE [kind |-> "Monocolor", width |-> width, height |-> height,
          px |-> [i \in 1..(width * height) |-> 0],
          palette |-> [on |-> 0, off |-> 0]]

is_rgb(b) == b.kind = "Rgb555"

\* set_palette without the match on the representation
set_palette_AnyKind(b, palette) ==
    [err |-> "Ok", sb |-> [b EXCEPT !.palette = palette]]

set_palette(b, palette) ==
    IF b.kind = "Rgb555"
    THEN [err |-> "Ok", sb |-> [b EXCEPT !.palette = palette]]
    ELSE [err |-> "InvalidData", sb |-> b]

\* set_cell with `>` for `>=` in its bounds check
set_cell_OffByOne(b, row, col, value) ==
    IF row > b.height \/ col > b.width
    THEN [err |-> "InvalidInput", sb |-> b]
    ELSE LET index == row * b.width + col
             cell == IF b.kind = "Monocolor"
                     THEN (IF value THEN 1 ELSE 0)
                     ELSE (IF value THEN b.palette.on ELSE b.palette.off)
         IN  IF index >= Len(b.px)
             THEN [err |-> "Panic", sb |-> b]
             ELSE [err |-> "Ok", sb |-> [b EXCEPT !.px[index + 1] = cell]]

\* a Monocolor cell holds the bool (FALSE as 0, TRUE as 1), an Rgb555 cell
\* the palette's colour; indexing the vector past its end panics
set_cell(b, row, col, value) ==
    IF row >= b.height \/ col >= b.width
    THEN [err |-> "InvalidInput", sb |-> b]
    ELSE LET index == row * b.width + col
             cell == IF b.kind = "Monocolor"
                     THEN (IF value THEN 1 ELSE 0)
                     ELSE (IF value THEN b.palette.on ELSE b.palette.off)
         IN  IF index >= Len(b.px)
             THEN [err |-> "Panic", sb |-> b]
             ELSE [err |-> "Ok", sb |-> [b EXCEPT !.px[index + 1] = cell]]

get_row(b, row_number) ==
    IF row_number >= b.height
    THEN [err |-> "InvalidInput", row |-> <<>>]
    ELSE IF b.kind = "Monocolor"
    THEN LET start_idx == row_number * b.width
             end_idx == (row_number + 1) * b.width
         IN  IF end_idx > Len(b.px)
             THEN [err |-> "Panic", row |-> <<>>]
             ELSE [err |-> "Ok", row |-> SubSeq(b.px, start_idx + 1, end_idx)]
    ELSE [err |-> "InvalidData", row |-> <<>>]

get_row_rgb(b, row_number) ==
    IF row_number >= b.height
    THEN [err |-> "InvalidInput", row |-> <<>>]
    ELSE IF b.kind = "Rgb555"
    THEN LET start_idx == row_number * b.width
             end_idx == (row_number + 1) * b.width
         IN  IF end_idx > Len(b.px)
             THEN [err |-> "Panic", row |-> <<>>]
             ELSE [err |-> "Ok", row |-> SubSeq(b.px, start_idx + 1, end_idx)]
    ELSE [err |-> "InvalidData", row |-> <<>>]

(***************************************************************************)
(* Host functions on the buffer (wasm_env/host_functions/display.rs)       *)
(***************************************************************************)
\* a u32 addition or multiplication: with overflow checks (a debug build) an
\* overflow panics, without them (a release build) the value wraps
Wraps(v) == v >= U32

\* bit idx of the row-major packed bitmap: indexing past its end panics
BitOf(buffer_data, idx) ==
    (buffer_data[(idx \div 8) + 1] \div (2 ^ (idx % 8))) % 2 = 1

\* the loops of write_region from cell (row, col) on; xEnd and yEnd are the
\* ends of the two ranges
RECURSIVE write_cells(_, _, _, _, _, _, _, _, _, _)
write_cells(b, position_x, position_y, width, buffer_data, xEnd, yEnd, row, col, checked) ==
    IF row >= yEnd \/ position_x >= xEnd
    THEN [err |-> "Ok", sb |-> b]
    ELSE IF col >= xEnd
    THEN write_cells(b, position_x, position_y, width, buffer_data, xEnd, yEnd,
                     row + 1, position_x, checked)
    ELSE LET prod == width * (row - position_y)
             sum == (col - position_x) + (prod % U32)
             idx == sum % U32
         IN  IF checked /\ (Wraps(prod) \/ Wraps(sum))
             THEN [err |-> "Panic", sb |-> b]
             ELSE IF idx \div 8 >= Len(buffer_data)
             THEN [err |-> "Panic", sb |-> b]
             ELSE LET r == set_cell(b, row, col, BitOf(buffer_data, idx))
                  IN  IF r.err # "Ok"
                      THEN r
                      ELSE write_cells(r.sb, position_x, position_y, width,
                                       buffer_data, xEnd, yEnd, row, col + 1, checked)

write_region(b, position_x, position_y, width, height, buffer_data, checked) ==
    LET ySum == position_y + height
        xSum == position_x + width
    IN  IF checked /\ Wraps(ySum)
        THEN [err |-> "Panic", sb |-> b]
        ELSE IF position_y >= ySum % U32
        THEN [err |-> "Ok", sb |-> b]
        ELSE IF checked /\ Wraps(xSum)
        THEN [err |-> "Panic", sb |-> b]
        ELSE write_cells(b, position_x, position_y, width, buffer_data,
                         xSum % U32, ySum % U32, position_y, position_x, checked)

\* pack_bools_to_bytes of the protocol crate: eight cells a byte, the first
\* cell in the lowest bit
RECURSIVE pack_bools_to_bytes(_)
pack_bools_to_bytes(bits) ==
    IF bits = <<>>
    THEN <<>>
    ELSE LET n == IF Len(bits) < 8 THEN Len(bits) ELSE 8
             RECURSIVE byte(_)
             byte(k) == IF k > n THEN 0 ELSE bits[k] + 2 * byte(k + 1)
         IN  <<byte(1)>> \o pack_bools_to_bytes(SubSeq(bits, n + 1, Len(bits)))

\* update_row taking the length of the packed bytes for that of the row
update_row_PackedLen(row_number, row_data) ==
    [type |-> "UpdateRow", row_number |-> row_number,
     row_data_len |-> Len(pack_bools_to_bytes(row_data)) % U8,
     row_data |-> pack_bools_to_bytes(row_data)]

\* the message update_row builds
update_row(row_number, row_data) ==
    [type |-> "UpdateRow", row_number |-> row_number,
     row_data_len |-> Len(row_data) % U8,
     row_data |-> pack_bools_to_bytes(row_data)]

\* the message update_row_rgb builds
update_row_rgb(row_number, row_data) ==
    [type |-> "UpdateRowRgb", row_number |-> row_number,
     row_data_len |-> Len(row_data) % U8,
     row_data |-> row_data]

\* render(rows): the rows in order; a failing get_row, or a failing send of
\* the connection (failAt names the call that fails, 0 for none), ends it
RECURSIVE render(_, _, _, _)
render(b, rows, failAt, out) ==
    IF rows = <<>>
    THEN [err |-> "Ok", out |-> out]
    ELSE LET row_number == Head(rows)
             g == IF is_rgb(b) THEN get_row_rgb(b, row_number) ELSE get_row(b, row_number)
             msg == IF is_rgb(b) THEN update_row_rgb(row_number, g.row)
                                 ELSE update_row(row_number, g.row)
         IN  IF g.err # "Ok"
             THEN [err |-> g.err, out |-> out]
             ELSE IF failAt = Len(out) + 1
             THEN [err |-> "IoError", out |-> Append(out, msg)]
             ELSE render(b, Tail(rows), failAt, Append(out, msg))

(***************************************************************************)
(* The host calling into the buffer.  sbRes records the call: its name,    *)
(* its integer arguments (a), its sequence argument (data), its result,    *)
(* and the number of calls so far.  A panic ends the host.                 *)
(***************************************************************************)
NoCall(checked) ==
    [op |-> "none", a |-> <<>>, data |-> <<>>, err |-> "none", n |-> 0,
     checked |-> checked]

Called(op, a, data, err) ==
    [op |-> op, a |-> a, data |-> data, err |-> err, n |-> sbRes.n + 1,
     checked |-> sbRes.checked]

HostAlive == sbRes.err # "Panic" /\ sbRes.n < MaxHostCalls

Bit(value) == IF value THEN 1 ELSE 0

SetCell(row, col, value) ==
    /\ HostAlive
    /\ LET r == set_cell(sb, row, col, value)
       IN  /\ sb' = r.sb
           /\ sbRes' = Called("set_cell", <<row, col, Bit(value)>>, <<>>, r.err)
    /\ UNCHANGED <<rendered, serialVars>>

SetPalette(palette) ==
    /\ HostAlive
    /\ LET r == set_palette(sb, palette)
       IN  /\ sb' = r.sb
           /\ sbRes' = Called("set_palette", <<>>, <<palette.on, palette.off>>, r.err)
    /\ UNCHANGED <<rendered, serialVars>>

GetRow(row_number) ==
    /\ HostAlive
    /\ LET r == get_row(sb, row_number)
       IN  sbRes' = Called("get_row", <<row_number>>, r.row, r.err)
    /\ UNCHANGED <<sb, rendered, serialVars>>

GetRowRgb(row_number) ==
    /\ HostAlive
    /\ LET r == get_row_rgb(sb, row_number)
       IN  sbRes' = Called("get_row_rgb", <<row_number>>, r.row, r.err)
    /\ UNCHANGED <<sb, rendered, serialVars>>

WriteRegion(position_x, position_y, width, height, buffer_data) ==
    /\ HostAlive
    /\ LET r == write_region(sb, position_x, position_y, width, height,
                             buffer_data, sbRes.checked)
       IN  /\ sb' = r.sb
           /\ sbRes' = Called("write_region",
                              <<position_x, position_y, width, height>>,
                              buffer_data, r.err)
    /\ UNCHANGED <<rendered, serialVars>>

Render(rows, failAt) ==
    /\ HostAlive
    /\ LET r == render(sb, rows, failAt, <<>>)
       IN  /\ failAt <= Len(r.out)
           /\ rendered' = rendered \o r.out
           /\ sbRes' = Called("render", <<failAt>>, rows, r.err)
    /\ UNCHANGED <<sb, serialVars>>

(***************************************************************************)
(* Specifications                                                          *)
(***************************************************************************)
InitCommon ==
    /\ exitCause = "none"
    /\ queue = <<>>
    /\ nEnq = 0
    /\ wl = [pc |-> "recv", req |-> NoReq]
    /\ wire = <<>>
    /\ ioFailed = FALSE
    /\ reply = [i \in Issuers |-> "none"]
    /\ pc = [c \in Callers |-> "idle"]
    /\ result = [c \in Callers |-> "none"]
    /\ ops = [c \in Callers |-> 0]
    /\ hb = "sleep"
    /\ pings = 0
    /\ rbuf = <<>>
    /\ rl = "reading"
    /\ inbound = <<>>
    /\ published = <<>>
    /\ inbox = "running"
    /\ history = <<>>
    /\ waits = [c \in Callers |-> NoWait]
    /\ owedG = [c \in Callers |-> FALSE]
    /\ owedW = [c \in Callers |-> FALSE]
    /\ now = 0
    /\ pubAt = <<>>

\* the serial engine alone: the host's display is left as constructed
ScreenIdle ==
    /\ sb = new(1, 1, None)
    /\ sbRes = NoCall(FALSE)
    /\ rendered = <<>>

\* start_serial_task has returned the handle and the future
Init ==
    /\ InitCommon
    /\ ScreenIdle
    /\ actor = "Opening"
    /\ link = <<>>
    /\ sent = <<>>

\* the transport actor, the handles' write operations and the heartbeat, on a
\* link whose device sends nothing
Next ==
    \/ OpenOk
    \/ OpenFail
    \/ \E c \in Callers, m \in SendMsgs : CallSend(c, m)
    \/ \E c \in Callers : SendReturn(c)
    \/ \E c \in Callers : DropHandle(c)
    \/ HbTick
    \/ HbReply
    \/ WriteLoopRecv
    \/ WriteLoopExit
    \/ WriteOk
    \/ \E part \in InFlightParts : WriteErr(part)
    \/ \E part \in InFlightParts : ReadFail(part)

Spec == Init /\ [][Next]_vars

(***************************************************************************)
(* The read loop alone, on a byte stream of up to MaxFrames frames: the    *)
(* port is open and the whole stream is in flight.                         *)
(***************************************************************************)
StreamItems == {"Ping", "SetLedOff", "Invalid"}

Streams == UNION {[1..k -> StreamItems] : k \in 0..MaxFrames}

FramingInit ==
    /\ InitCommon
    /\ ScreenIdle
    /\ ScreenIdle
    /\ actor = "Running"
    /\ sent \in Streams
    /\ link = StreamBytes(sent)

FramingNext ==
    \/ \E n \in 1..Len(link), part \in InFlightParts : SerialRead(n, part)
    \/ \E part \in InFlightParts : SerialReadZero(part)
    \/ \E part \in InFlightParts : ReadFail(part)

FramingSpec == FramingInit /\ [][FramingNext]_vars

(***************************************************************************)
(* The inbound side of a connection: the device, the read loop, the        *)
(* inbox's maintenance task, and callers in get_display_info and           *)
(* wait_for_message.                                                       *)
(***************************************************************************)
InboxInit ==
    /\ InitCommon
    /\ ScreenIdle
    /\ ScreenIdle
    /\ actor = "Opening"
    /\ link = <<>>
    /\ sent = <<>>

\* the ends of the frames in flight: here a read returns whole frames
FrameEnds == {i \in 1..Len(link) : link[i] = 0}

InboxNext ==
    \/ OpenOk
    \/ OpenFail
    \/ \E c \in Callers : GdiCall(c)
    \/ \E c \in Callers : GdiReply(c)
    \/ \E c \in Callers : GdiRecv(c)
    \/ \E c \in Callers, p \in Preds, t \in BOOLEAN : WaitCall(c, p, t)
    \/ \E c \in Callers : WaitTimeout(c)
    \/ \E c \in Callers : WaitReturn(c)
    \/ WriteLoopRecv
    \/ WriteOk
    \/ \E m \in DeviceMsgs : DeviceSend(m)
    \/ \E n \in FrameEnds, part \in InFlightParts : SerialRead(n, part)
    \/ \E part \in InFlightParts : ReadFail(part)
    \/ InboxDrain
    \/ InboxStop

InboxSpec == InboxInit /\ [][InboxNext]_vars

(***************************************************************************)
(* The inbox's history over time: the device, the read loop, the           *)
(* maintenance task, a caller in get_display_info and callers looking the  *)
(* history up.  A frame may already be in flight when the port opens.      *)
(***************************************************************************)
HistoryInit ==
    /\ InitCommon
    /\ ScreenIdle
    /\ actor = "Running"
    /\ sent \in {<<>>} \cup {<<m>> : m \in DeviceMsgs}
    /\ link = StreamBytes(sent)

StartTimes == {0, 1, RetentionWindow}

HistoryNext ==
    \/ \E c \in Callers : GdiCall(c)
    \/ \E c \in Callers : GdiReply(c)
    \/ \E c \in Callers : GdiRecv(c)
    \/ WriteLoopRecv
    \/ WriteOk
    \/ \E m \in DeviceMsgs : DeviceSend(m)
    \/ \E n \in FrameEnds, part \in InFlightParts : SerialRead(n, part)
    \/ InboxDrain
    \/ \E c \in Callers, p \in Preds, t \in StartTimes : CheckCall(c, p, t)
    \/ Prune
    \/ Tick

HistorySpec == HistoryInit /\ [][HistoryNext]_vars

(***************************************************************************)
(* The host's calls on a screen buffer, in a build with or without         *)
(* overflow checks.                                                        *)
(***************************************************************************)
Buffers ==
    {new(1, 1, None), new(3, 2, None), new(3, 2, Some(DEFAULT_MONO_PALETTE)),
     new(16, 16, None), new(U8, 1, None)}

Coordinates == {0, 2, 3}
Palettes == {DEFAULT_MONO_PALETTE, OtherPalette}
\* <<start, length>> of one side of a rectangle
Spans == {<<0, 1>>, <<0, 8>>, <<1, 2>>, <<0, 17>>, <<U32 - 1, 2>>, <<1, U32 - 1>>}
Bitmaps == {<<>>, <<255>>, <<5, 0, 1>>}
RowLists == {<<0>>, <<1, 0>>, <<0, 2>>}

ScreenInit ==
    /\ InitCommon
    /\ actor = "Running"
    /\ link = <<>>
    /\ sent = <<>>
    /\ sb \in Buffers
    /\ sbRes \in {NoCall(checked) : checked \in BOOLEAN}
    /\ rendered = <<>>

ScreenNext ==
    \/ \E row \in Coordinates, col \in Coordinates, v \in BOOLEAN : SetCell(row, col, v)
    \/ \E p \in Palettes : SetPalette(p)
    \/ \E n \in Coordinates : GetRow(n)
    \/ \E n \in Coordinates : GetRowRgb(n)
    \/ \E h \in Spans, v \in Spans, d \in Bitmaps : WriteRegion(h[1], v[1], h[2], v[2], d)
    \/ \E rows \in RowLists, failAt \in 0..1 : Render(rows, failAt)

ScreenSpec == ScreenInit /\ [][ScreenNext]_vars

(***************************************************************************)
(* Claims                                                                  *)
(***************************************************************************)

\* C1 (Spec): outbound writes are strictly FIFO and whole: when any byte of
\* request B's frame is on the link, every request A enqueued before B has
\* its whole frame on the link, earlier.
C1_FifoWholeFrames ==
    \A j \in DOMAIN wire :
        wire[j].bytes # <<>> =>
            \A a \in 1..(wire[j].id - 1) :
                \E i \in 1..(j - 1) :
                    wire[i].id = a /\ wire[i].bytes = Frame(wire[i].msg)

Msgs(items) == SelectSeq(items, LAMBDA x : x # "Invalid")

\* C2 (FramingSpec): for a stream of two or more back-to-back well-formed
\* frames, however it is split into reads, once the reads have returned the
\* whole stream the read loop has published every message of it, in order,
\* exactly once each.
C2_FramingRobust ==
    (Len(sent) >= 2 /\ Msgs(sent) = sent /\ link = <<>> /\ rl # "failed")
        => published = sent

\* C3 (InboxSpec): a GetDisplayInfoResponse published while a
\* get_display_info call is reading the inbound channel reaches that call:
\* until the call has returned, the response is still in the channel for it.
C3_ResponseReachesCall ==
    \A c \in Callers :
        owedG[c] => \E i \in DOMAIN inbound : inbound[i] = "GetDisplayInfoResponse"

\* C4 (InboxSpec): a message published while an untimed wait whose predicate
\* it satisfies is pending reaches that wait: until the wait is resolved, the
\* message is still in the channel for the maintenance task to test.
C4_MatchReachesWaiter ==
    \A c \in Callers :
        (owedW[c] /\ waits[c].slot = "pending")
            => (inbox = "running" /\ \E i \in DOMAIN inbound : inbound[i] \in waits[c].pred)

\* C5 (Spec): any I/O failure on the link is fatal: once a read or a write
\* has failed both loops have stopped, and from then on nothing is dequeued,
\* written, read or published.
C5_IoFailureFatal ==
    [][ioFailed => (wl' = wl /\ wire' = wire /\ rbuf' = rbuf /\ published' = published)]_vars

\* C6 (Spec): no caller of a write operation is left blocked on its reply
\* channel: once the actor has exited, every request it left in the queue or
\* in flight has been answered.
C6_NoCallerLeftBlocked ==
    actor = "Closed" =>
        \A c \in Callers : pc[c] = "sendReply" => reply[c] # "pending"

\* C7 (Spec): once every handle has been dropped, the write loop, waiting on
\* the empty queue, observes the queue closed and exits.
C7_ClosedQueueObserved ==
    ((\A c \in Callers : pc[c] = "dropped") /\ actor = "Running" /\
     wl.pc = "recv" /\ queue = <<>>)
        => ENABLED WriteLoopExit

\* C8 (FramingSpec): a frame that unstuffs but does not deserialize is
\* absorbed: at the head of a stream, it leaves the read loop running, and
\* once the reads have returned the whole stream exactly the well-formed
\* frames after it have been published, in order.
C8_MalformedAbsorbed ==
    (Len(sent) >= 1 /\ sent[1] = "Invalid" /\ rl # "failed")
        => /\ rl = "reading"
           /\ actor = "Running"
           /\ link = <<>> => published = Msgs(sent)

\* C9 (InboxSpec): when opening the device fails the actor is Closed and
\* nothing else has started: no byte written, nothing read from the link,
\* nothing published, no request dequeued.
C9_OpenFailureStartsNothing ==
    exitCause = "OpenError" =>
        /\ actor = "Closed"
        /\ wire = <<>>
        /\ wl = [pc |-> "recv", req |-> NoReq]
        /\ Len(queue) = nEnq
        /\ rbuf = <<>>
        /\ rl = "reading"
        /\ published = <<>>
        /\ inbound = <<>>
        /\ link = StreamBytes(sent)

\* the open has failed with a request waiting in the queue and device bytes
\* in flight
C9_Witness ==
    exitCause = "OpenError" /\ queue # <<>> /\ link # <<>>

\* C10 (Spec): once the actor has exited the heartbeat stops: it has stopped
\* already, or its next step (the send that fails, the reply that ends it)
\* can be taken.
C10_HeartbeatStops ==
    actor = "Closed" =>
        (hb \in {"stopped", "killed"} \/ ENABLED HbTick \/ ENABLED HbReply)


\* C11 (HistorySpec): a message the read loop published at time T, once a
\* receiver has taken it from the channel, is found by
\* check_for_message_since for every matcher accepting it and every
\* start_time <= T (the entry found is it or an earlier retained match) while
\* now - T < RetentionWindow, and is not found once now - T >= RetentionWindow,
\* pruned or not.
C11_HistoryExpiry ==
    \A i \in DOMAIN published : \A pred \in Preds : \A start \in 0..pubAt[i] :
        published[i] \in pred =>
            LET T == pubAt[i]
                taken == i <= Len(published) - Len(inbound)
                e == check_for_message_since(pred, start)
            IN  /\ (taken /\ now - T < RetentionWindow)
                       => (e # NoEntry /\ e.received_at <= T)
                /\ (now - T >= RetentionWindow)
                       => (e = NoEntry \/ e.received_at > T)

\* C12 (InboxSpec): a pending wait is resolved once: with a message its
\* matcher accepts, or with "no match" if it has a deadline; a resolved wait
\* keeps its outcome until wait_for_message returns exactly that outcome to
\* the caller.
C12_ResolvedOnce ==
    [][\A c \in Callers :
        /\ (waits[c].slot = "pending" /\ waits'[c].slot # "pending")
               => \/ waits'[c].slot \in waits[c].pred
                  \/ waits'[c].slot = "NoMatch" /\ waits[c].timed
        /\ (waits[c].slot \notin {"pending", "none"})
               => \/ waits'[c] = waits[c] /\ pc'[c] = pc[c]
                  \/ /\ waits'[c] = NoWait
                     /\ pc[c] = "waiting" /\ pc'[c] = "idle"
                     /\ result'[c] = waits[c].slot]_vars

\* a timed wait was resolved by a matching message, and the deadline, which
\* may pass at any time, has not changed the outcome
C12_Witness ==
    \E c \in Callers :
        /\ waits[c].timed
        /\ waits[c].slot \in waits[c].pred
        /\ waits[c].slot \in {published[i] : i \in DOMAIN published}

\* C13 (ScreenSpec): set_cell(row, col, v) returns the out-of-bounds error
\* whenever row >= height or col >= width, get_row(n) and get_row_rgb(n)
\* whenever n >= height; a failed call of these leaves cells, palette and
\* dimensions as they were; and after every host call the pixel vector has
\* length width * height, the dimensions being those of construction.
C13_BoundsInvariant ==
    [][LET r == sbRes'
       IN  /\ (r.op = "set_cell" /\ (r.a[1] >= sb.height \/ r.a[2] >= sb.width))
                  => r.err = "InvalidInput"
           /\ (r.op \in {"get_row", "get_row_rgb"} /\ r.a[1] >= sb.height)
                  => r.err = "InvalidInput"
           /\ (r.op \in {"set_cell", "get_row", "get_row_rgb"} /\ r.err # "Ok")
                  => sb' = sb
           /\ sb'.width = sb.width /\ sb'.height = sb.height
           /\ Len(sb'.px) = sb'.width * sb'.height]_vars

\* set_cell was refused for a column equal to the width, in a row of the
\* buffer, on a buffer that already holds a set cell
C13_Witness ==
    /\ sbRes.op = "set_cell"
    /\ sbRes.err = "InvalidInput"
    /\ sbRes.a[1] < sb.height
    /\ sbRes.a[2] = sb.width
    /\ \E i \in DOMAIN sb.px : sb.px[i] # 0

\* C14 (ScreenSpec): the representation of a buffer never changes, and
\* get_row on an Rgb555 buffer, get_row_rgb on a Monocolor buffer and
\* set_palette on a Monocolor buffer return an error, whatever the argument
\* and the calls before, and leave the buffer as it was.
C14_RepresentationInvariant ==
    [][LET r == sbRes'
           wrong == \/ r.op = "get_row" /\ sb.kind = "Rgb555"
                    \/ r.op = "get_row_rgb" /\ sb.kind = "Monocolor"
                    \/ r.op = "set_palette" /\ sb.kind = "Monocolor"
       IN  /\ sb'.kind = sb.kind
           /\ wrong => (r.err \in {"InvalidData", "InvalidInput"} /\ sb' = sb)]_vars

\* set_palette was refused on a Monocolor buffer that holds a set cell
C14_Witness ==
    /\ sbRes.op = "set_palette"
    /\ sbRes.err = "InvalidData"
    /\ sb.kind = "Monocolor"
    /\ \E i \in DOMAIN sb.px : sb.px[i] # 0

\* the cells of row n of buffer b
RowCells(b, n) == [j \in 1..b.width |-> b.px[n * b.width + j]]

\* msg is the one message for row n of buffer b, its length field being len:
\* UpdateRow with the cells packed eight a byte on a Monocolor buffer,
\* UpdateRowRgb with the cells themselves on an Rgb555 buffer
IsRowMessage(msg, b, n, len) ==
    /\ msg.row_number = n
    /\ msg.row_data_len = len
    /\ IF b.kind = "Monocolor"
       THEN /\ msg.type = "UpdateRow"
            /\ Len(msg.row_data) = (b.width + 7) \div 8
            /\ \A j \in 0..(b.width - 1) :
                   BitOf(msg.row_data, j) = (RowCells(b, n)[j + 1] = 1)
       ELSE /\ msg.type = "UpdateRowRgb"
            /\ msg.row_data = RowCells(b, n)

\* the step is a render that returned Ok and issued, in the order of rows,
\* one message a row, or it is not a render that returned Ok
RenderIssuesRows(b, before, res, after, len) ==
    (res.op = "render" /\ res.err = "Ok") =>
        /\ Len(after) = Len(before) + Len(res.data)
        /\ SubSeq(after, 1, Len(before)) = before
        /\ \A i \in 1..Len(res.data) :
               IsRowMessage(after[Len(before) + i], b, res.data[i], len)

\* the scenario of the specification: a fresh 16x16 Monocolor buffer,
\* write_region(0, 0, 8, 1, [0xFF]), then render([0])
ScenarioHolds(b, before, res, after) ==
    (/\ b.width = 16 /\ b.height = 16 /\ b.kind = "Monocolor"
     /\ before.op = "write_region" /\ before.n = 1
     /\ before.a = <<0, 0, 8, 1>> /\ before.data = <<255>>
     /\ res.op = "render" /\ res.data = <<0>> /\ res.a = <<0>>) =>
        /\ before.err = "Ok"
        /\ \A j \in 1..16 : RowCells(b, 0)[j] = (IF j <= 8 THEN 1 ELSE 0)
        /\ \A i \in 17..256 : b.px[i] = 0
        /\ res.err = "Ok"
        /\ after = <<[type |-> "UpdateRow", row_number |-> 0, row_data_len |-> 16,
                      row_data |-> <<255, 0>>]>>

\* C15 (ScreenSpec), as claimed: a render that returns Ok has issued, in the
\* order given, exactly one message for each named row: UpdateRow on a
\* Monocolor buffer, UpdateRowRgb on an Rgb555 buffer, with that row_number,
\* row_data_len equal to the buffer width and row_data the row's contents;
\* and the scenario of the specification holds.
C15_RenderRows_Width ==
    [][/\ RenderIssuesRows(sb, rendered, sbRes', rendered', sb.width)
       /\ ScenarioHolds(sb, sbRes, sbRes', rendered')]_vars

\* C15 (ScreenSpec), amended: as claimed, with row_data_len equal to the
\* buffer width modulo 256, the field being eight bits wide; and a render
\* that returns an error has issued no message but those of rows named
\* before the failing one and of the row whose send failed.
C15_RenderRows ==
    [][/\ RenderIssuesRows(sb, rendered, sbRes', rendered', sb.width % U8)
       /\ ScenarioHolds(sb, sbRes, sbRes', rendered')
       /\ (sbRes'.op = "render" /\ sbRes'.err # "Ok") =>
              /\ Len(rendered') - Len(rendered) <= Len(sbRes'.data)
              /\ SubSeq(rendered', 1, Len(rendered)) = rendered
              /\ \A i \in 1..(Len(rendered') - Len(rendered)) :
                     IsRowMessage(rendered'[Len(rendered) + i], sb, sbRes'.data[i],
                                  sb.width % U8)]_vars

\* the scenario has run: render([0]) after write_region(0, 0, 8, 1, [0xFF])
\* on the 16x16 Monocolor buffer has issued the one UpdateRow
C15_Witness ==
    /\ sb.width = 16 /\ sb.kind = "Monocolor"
    /\ sbRes.op = "render" /\ sbRes.data = <<0>> /\ sbRes.err = "Ok"
    /\ \A j \in 1..16 : sb.px[j] = (IF j <= 8 THEN 1 ELSE 0)
    /\ rendered = <<[type |-> "UpdateRow", row_number |-> 0, row_data_len |-> 16,
                     row_data |-> <<255, 0>>]>>

\* some cell of the rectangle [x, x + w) x [y, y + h) lies outside buffer b
RectangleExceeds(b, x, y, w, h) ==
    w > 0 /\ h > 0 /\ (x + w > b.width \/ y + h > b.height)

\* C16 (ScreenSpec): write_region(x, y, w, h, bitmap) returns the
\* out-of-bounds error whenever some cell of its rectangle lies outside the
\* buffer, for every x, y, w, h, sums that overflow included, and every
\* bitmap: it neither returns Ok nor panics.
C16_RegionOutOfBounds ==
    (/\ sbRes.op = "write_region"
     /\ RectangleExceeds(sb, sbRes.a[1], sbRes.a[2], sbRes.a[3], sbRes.a[4]))
        => sbRes.err = "InvalidInput"

\* C20 (ScreenSpec): a write_region that returns the out-of-bounds error has
\* left every cell of the buffer as it was before the call.
C20_RegionAllOrNothing ==
    [][(sbRes'.op = "write_region" /\ sbRes'.err = "InvalidInput") => sb' = sb]_vars

\* C17 (FramingSpec): on each read that returns bytes, if decoding the
\* accumulated buffer fails the buffer afterwards is the previous buffer
\* followed by the bytes read; if it succeeds, exactly the prefix up to and
\* including the first 0x00 is discarded and the rest is kept, in order.
C17_BufferTrimming ==
    [][rl' # "failed" =>
          LET n == Len(link) - Len(link')
              buf == rbuf \o SubSeq(link, 1, n)
          IN  IF decode_vec(buf).ok
              THEN /\ \E k \in 1..Len(buf) :
                         /\ buf[k] = 0
                         /\ \A j \in 1..(k - 1) : buf[j] # 0
                         /\ rbuf' = SubSeq(buf, k + 1, Len(buf))
              ELSE rbuf' = buf]_vars

\* a reply is sent on issuer i's reply channel in this step: it is for the
\* request in flight in the write loop, which had no reply yet, the write of
\* that request has ended in this step, and the reply is Ok exactly when the
\* whole frame was written
ReplyIsOwnResult(i) ==
    (reply'[i] # reply[i] /\ reply'[i] \in {"Ok", "Err"}) =>
        /\ wl.pc = "write" /\ wl.req.from = i
        /\ reply[i] = "pending"
        /\ Len(wire') = Len(wire) + 1
        /\ wire'[Len(wire')].id = wl.req.id
        /\ (reply'[i] = "Ok") = (wire'[Len(wire')].bytes = Frame(wl.req.msg))

\* a caller's write operation returns Ok only from an Ok on its own channel
OkIsOwnReply(c) ==
    (result'[c] # result[c] /\ result'[c] = "Ok") => reply[c] = "Ok"

\* C18 (Spec), as claimed: every request the write loop dequeues receives
\* exactly one reply on its reply channel, sent when the write of its frame
\* has completed and carrying that write's result; a caller never observes
\* Ok for a frame that was not written, nor another request's result.
C18_WriteAcknowledged_Always ==
    [][/\ (wl.pc = "write" /\ wl' # wl) =>
              (reply[wl.req.from] = "pending" /\ reply'[wl.req.from] \in {"Ok", "Err"})
       /\ \A i \in Issuers : ReplyIsOwnResult(i)
       /\ \A c \in Callers : OkIsOwnReply(c)]_vars

\* C18 (Spec), amended: as claimed, but for a request whose write is in
\* flight when the actor exits: its reply channel is closed without a reply,
\* which its caller observes as an error.
C18_WriteAcknowledged ==
    [][/\ (wl.pc = "write" /\ wl' # wl) =>
              /\ reply[wl.req.from] = "pending"
              /\ \/ reply'[wl.req.from] \in {"Ok", "Err"}
                 \/ reply'[wl.req.from] = "Dropped" /\ actor' = "Closed"
       /\ \A i \in Issuers :
              /\ ReplyIsOwnResult(i)
              /\ (reply'[i] # reply[i] /\ reply'[i] = "Dropped") =>
                     (wl.pc = "write" /\ wl.req.from = i /\ reply[i] = "pending")
       /\ \A c \in Callers :
              /\ OkIsOwnReply(c)
              /\ (result'[c] # result[c] /\ reply[c] = "Dropped") => result'[c] = "UnexpectedEof"]_vars

\* a caller has got the error of a failed write that put part of its frame
\* on the link, while another request's frame was written whole
C18_Witness ==
    \E c \in Callers :
        /\ result[c] = "IoError"
        /\ \E j \in DOMAIN wire : wire[j].bytes # <<>> /\ wire[j].bytes # Frame(wire[j].msg)
        /\ \E j \in DOMAIN wire : wire[j].bytes = Frame(wire[j].msg)

\* C19 (FramingSpec): the read loop never panics on inbound data: whenever
\* decoding the accumulated buffer succeeds the buffer holds a 0x00, for
\* every byte stream and every split into reads.
C19_ReadLoopNeverPanics == rl # "panicked"
====
